---- MODULE Spec2Model ----
(***************************************************************************)
(* Model of retry (src/src/main.rs): the LoopManager and the loop of main  *)
(* that runs a command until it exits 0 or a bound stops the loop.         *)
(*                                                                         *)
(* Time is counted in ticks of half a millisecond, relative to             *)
(* start_of_day.  A Duration and the f64 seconds of the command line are   *)
(* both whole numbers of ticks, so that the truncation to whole            *)
(* milliseconds done by milliseconds() is visible.  Values stay far below  *)
(* 2^64, where the cast to u64 would saturate at the top.                  *)
(***************************************************************************)
EXTENDS Integers, Sequences, FiniteSets, TLC

\* ---- bounds of the model ------------------------------------------------
MaxClock == 8        \* the system clock is followed up to this tick
BackMax == 1         \* how far before start_of_day the clock can be set
MaxIter == 3         \* successful steps followed

TicksPerMilli == 2

\* Option<T>: None, Some(v)
None == <<>>
Some(v) == <<v>>
IsSome(o) == o # <<>>
Unwrap(o) == o[1]

\* command line values (RetryCli), f64 seconds written in ticks
TimeoutChoices == {None, Some(-1), Some(0), Some(3), Some(4)}
IntervalChoices == {None, Some(-1), Some(2), Some(3)}
MaximumIterationsChoices == {None, Some(0), Some(1), Some(2), Some(3)}

\* std::process::ExitStatus::code(): Some(rc), or None when killed by a signal
ExitStatuses == {Some(0), Some(1), None}
FailStatuses == {Some(1), None}

\* Result<T>
Ok(v) == [tag |-> "Ok", val |-> v, err |-> "none"]
Err(e) == [tag |-> "Err", val |-> 0, err |-> e]

VARIABLES
    loop_manager,   \* the LoopManager of main
    debug_enabled,  \* whether the log level lets debug! evaluate its arguments
    clock,          \* SystemTime::now(), in ticks since start_of_day
    pc,             \* position of main in its loop
    status,         \* exit status of the last attempt
    wait,           \* the Duration handed to thread::sleep
    outcome,        \* how main ended
    attempts,       \* calls of Command::status()
    spawn_failed,   \* whether the last Command::status() returned an io::Error
    step_calls      \* calls of loop_manager.step()

vars == <<loop_manager, debug_enabled, clock, pc, status, wait, outcome, attempts, spawn_failed, step_calls>>

\* fn milliseconds(time_s: f64) -> u64: the cast truncates toward zero and
\* saturates, a negative value becomes 0
milliseconds(time_s) == IF time_s < 0 THEN 0 ELSE time_s \div TicksPerMilli

\* Duration::from_millis
from_millis(ms) == ms * TicksPerMilli

\* RetryCli::build_loop_manager
build_loop_manager(t, i, m) ==
    [start_of_day |-> 0, timeout |-> t, interval |-> i,
     maximum_iterations |-> m, iteration |-> 0]

\* SystemTime::elapsed() read as zero when the clock is before the instant
system_elapsed_saturating(start, now) == IF now >= start THEN Ok(now - start) ELSE Ok(0)

\* SystemTime::elapsed(): an error when the clock is before the instant
system_elapsed(start, now) == IF now >= start THEN Ok(now - start) ELSE Err("ClockError")

\* LoopManager::elapsed
elapsed(self, now) == system_elapsed(self.start_of_day, now)

\* LoopManager::step, with a timeout check that comes after the
\* maximum-iterations check
step_max_first(self, now) ==
    IF IsSome(self.maximum_iterations) /\ ~(self.iteration + 1 < Unwrap(self.maximum_iterations))
    THEN [res |-> Err("MaximumIterations"), self |-> self]
    ELSE IF IsSome(self.timeout) /\ elapsed(self, now).tag = "Err"
    THEN [res |-> elapsed(self, now), self |-> self]
    ELSE IF IsSome(self.timeout)
            /\ ~(elapsed(self, now).val < from_millis(milliseconds(Unwrap(self.timeout))))
    THEN [res |-> Err("Timeout"), self |-> self]
    ELSE [res |-> Ok(0), self |-> [self EXCEPT !.iteration = @ + 1]]

\* LoopManager::step, comparing iteration instead of iteration + 1
step_no_off_by_one(self, now) ==
    IF IsSome(self.timeout) /\ elapsed(self, now).tag = "Err"
    THEN [res |-> elapsed(self, now), self |-> self]
    ELSE IF IsSome(self.timeout)
            /\ ~(elapsed(self, now).val < from_millis(milliseconds(Unwrap(self.timeout))))
    THEN [res |-> Err("Timeout"), self |-> self]
    ELSE IF IsSome(self.maximum_iterations) /\ ~(self.iteration < Unwrap(self.maximum_iterations))
    THEN [res |-> Err("MaximumIterations"), self |-> self]
    ELSE [res |-> Ok(0), self |-> [self EXCEPT !.iteration = @ + 1]]

\* LoopManager::step, incrementing before the checks
step_increment_first(self, now) ==
    LET s == [self EXCEPT !.iteration = @ + 1] IN
    IF IsSome(self.timeout) /\ elapsed(self, now).tag = "Err"
    THEN [res |-> elapsed(self, now), self |-> s]
    ELSE IF IsSome(self.timeout)
            /\ ~(elapsed(self, now).val < from_millis(milliseconds(Unwrap(self.timeout))))
    THEN [res |-> Err("Timeout"), self |-> s]
    ELSE IF IsSome(self.maximum_iterations) /\ ~(s.iteration < Unwrap(self.maximum_iterations))
    THEN [res |-> Err("MaximumIterations"), self |-> s]
    ELSE [res |-> Ok(0), self |-> s]

\* LoopManager::step, without the timeout check
step_no_timeout(self, now) ==
    IF IsSome(self.maximum_iterations) /\ ~(self.iteration + 1 < Unwrap(self.maximum_iterations))
    THEN [res |-> Err("MaximumIterations"), self |-> self]
    ELSE [res |-> Ok(0), self |-> [self EXCEPT !.iteration = @ + 1]]

\* LoopManager::step, restarting start_of_day on a successful step
step_restart_clock(self, now) ==
    IF IsSome(self.timeout) /\ elapsed(self, now).tag = "Err"
    THEN [res |-> elapsed(self, now), self |-> self]
    ELSE IF IsSome(self.timeout)
            /\ ~(elapsed(self, now).val < from_millis(milliseconds(Unwrap(self.timeout))))
    THEN [res |-> Err("Timeout"), self |-> self]
    ELSE IF IsSome(self.maximum_iterations) /\ ~(self.iteration + 1 < Unwrap(self.maximum_iterations))
    THEN [res |-> Err("MaximumIterations"), self |-> self]
    ELSE [res |-> Ok(0), self |-> [self EXCEPT !.iteration = @ + 1, !.start_of_day = now]]

\* LoopManager::step, incrementing when the maximum-iterations check fails
step_count_refused(self, now) ==
    IF IsSome(self.timeout) /\ elapsed(self, now).tag = "Err"
    THEN [res |-> elapsed(self, now), self |-> self]
    ELSE IF IsSome(self.timeout)
            /\ ~(elapsed(self, now).val < from_millis(milliseconds(Unwrap(self.timeout))))
    THEN [res |-> Err("Timeout"), self |-> self]
    ELSE IF IsSome(self.maximum_iterations) /\ ~(self.iteration + 1 < Unwrap(self.maximum_iterations))
    THEN [res |-> Err("MaximumIterations"), self |-> [self EXCEPT !.iteration = @ + 1]]
    ELSE [res |-> Ok(0), self |-> [self EXCEPT !.iteration = @ + 1]]

\* LoopManager::step: the result and the manager after the call
step(self, now) ==
    IF IsSome(self.timeout) /\ elapsed(self, now).tag = "Err"
    THEN [res |-> elapsed(self, now), self |-> self]
    ELSE IF IsSome(self.timeout)
            /\ ~(elapsed(self, now).val < from_millis(milliseconds(Unwrap(self.timeout))))
    THEN [res |-> Err("Timeout"), self |-> self]
    ELSE IF IsSome(self.maximum_iterations) /\ ~(self.iteration + 1 < Unwrap(self.maximum_iterations))
    THEN [res |-> Err("MaximumIterations"), self |-> self]
    ELSE [res |-> Ok(0), self |-> [self EXCEPT !.iteration = @ + 1]]

\* LoopManager::interval, falling back to the base interval when none is set
interval_default_one(self, now) ==
    IF IsSome(self.interval)
    THEN LET target == from_millis(milliseconds(Unwrap(self.interval) * self.iteration))
             e == system_elapsed(self.start_of_day, now)
         IN  IF e.tag = "Err" THEN e
             ELSE IF target < e.val THEN Err("Panic")
             ELSE Ok(target - e.val)
    ELSE Ok(from_millis(1))

\* LoopManager::interval as a flat delay of the base interval after each
\* failed attempt
interval_fixed_delay(self, now) ==
    IF IsSome(self.interval)
    THEN LET e == system_elapsed(self.start_of_day, now)
         IN  IF e.tag = "Err" THEN e
             ELSE Ok(from_millis(milliseconds(Unwrap(self.interval))))
    ELSE Ok(0)

\* LoopManager::interval.  The left operand is built first, then elapsed()?
\* returns its error; Duration - Duration panics when the result would be
\* negative ("overflow when subtracting durations").
interval(self, now) ==
    IF IsSome(self.interval)
    THEN LET target == from_millis(milliseconds(Unwrap(self.interval) * self.iteration))
             e == system_elapsed(self.start_of_day, now)
         IN  IF e.tag = "Err" THEN e
             ELSE IF target < e.val THEN Err("Panic")
             ELSE Ok(target - e.val)
    ELSE Ok(0)

\* LoopManager::status: the formatted text, as the pair it is made of
status_text(self, now) ==
    IF elapsed(self, now).tag = "Err" THEN elapsed(self, now)
    ELSE Ok(<<elapsed(self, now).val, self.iteration>>)

\* main written as a loop that consults the bounds before the first attempt
Init_step_first ==
    /\ \E t \in TimeoutChoices, i \in IntervalChoices, m \in MaximumIterationsChoices :
           loop_manager = build_loop_manager(t, i, m)
    /\ debug_enabled \in BOOLEAN
    /\ clock = 0
    /\ pc = "step"
    /\ status = None
    /\ wait = 0
    /\ outcome = "Running"
    /\ attempts = 0
    /\ spawn_failed = FALSE
    /\ step_calls = 0

Init ==
    /\ \E t \in TimeoutChoices, i \in IntervalChoices, m \in MaximumIterationsChoices :
           loop_manager = build_loop_manager(t, i, m)
    /\ debug_enabled \in BOOLEAN
    /\ clock = 0
    /\ pc = "spawn"
    /\ status = None
    /\ wait = 0
    /\ outcome = "Running"
    /\ attempts = 0
    /\ spawn_failed = FALSE
    /\ step_calls = 0

\* main returns: Ok after break, or the error of a ? (a panic unwinds)
Finish(o) ==
    /\ pc' = "done"
    /\ outcome' = o

\* Command::status() that treats a spawn error as a failed attempt
Spawn_retry_error(spawned) ==
    /\ pc = "spawn"
    /\ attempts' = attempts + 1
    /\ spawn_failed' = ~spawned
    /\ IF spawned THEN pc' = "wait" ELSE pc' = "step"
    /\ UNCHANGED <<loop_manager, debug_enabled, clock, status, wait, outcome, step_calls>>

\* Command::new(&cmd[0]).args(cmd_args).status()?: the child is spawned, or
\* the io::Error leaves main
Spawn(spawned) ==
    /\ pc = "spawn"
    /\ attempts' = attempts + 1
    /\ spawn_failed' = ~spawned
    /\ IF spawned
       THEN pc' = "wait" /\ UNCHANGED outcome
       ELSE Finish("SpawnError")
    /\ UNCHANGED <<loop_manager, debug_enabled, clock, status, wait, step_calls>>

\* the end of an attempt where every exit status goes on to step()
Exit_no_break(st) ==
    /\ pc = "wait"
    /\ status' = st
    /\ pc' = "step"
    /\ UNCHANGED <<loop_manager, debug_enabled, clock, wait, outcome, attempts, spawn_failed, step_calls>>

\* the end of an attempt where a missing exit code counts as code 0
Exit_signal_success(st) ==
    /\ pc = "wait"
    /\ status' = st
    /\ IF st = None \/ Unwrap(st) = 0
       THEN Finish("Success")
       ELSE pc' = "step" /\ UNCHANGED outcome
    /\ UNCHANGED <<loop_manager, debug_enabled, clock, wait, attempts, spawn_failed, step_calls>>

\* the end of an attempt where the timeout is looked at before the exit code
Exit_timeout_check(st) ==
    /\ pc = "wait"
    /\ status' = st
    /\ IF /\ IsSome(loop_manager.timeout)
          /\ clock - loop_manager.start_of_day >= Unwrap(loop_manager.timeout)
       THEN Finish("Timeout")
       ELSE IF IsSome(st) /\ Unwrap(st) = 0
       THEN Finish("Success")
       ELSE pc' = "step" /\ UNCHANGED outcome
    /\ UNCHANGED <<loop_manager, debug_enabled, clock, wait, attempts, spawn_failed, step_calls>>

\* the child ends; status.code() == Some(0) breaks out of the loop
Exit(st) ==
    /\ pc = "wait"
    /\ status' = st
    /\ IF IsSome(st) /\ Unwrap(st) = 0
       THEN Finish("Success")
       ELSE pc' = "step" /\ UNCHANGED outcome
    /\ UNCHANGED <<loop_manager, debug_enabled, clock, wait, attempts, spawn_failed, step_calls>>

\* loop_manager.step() whose error is recorded while the loop goes on
Step_swallow ==
    /\ pc = "step"
    /\ LET r == step(loop_manager, clock) IN
       /\ r.res.tag = "Ok" => loop_manager.iteration < MaxIter
       /\ loop_manager' = r.self
       /\ pc' = "status"
       /\ IF r.res.tag = "Ok" THEN UNCHANGED outcome ELSE outcome' = r.res.err
    /\ step_calls' = step_calls + 1
    /\ UNCHANGED <<debug_enabled, clock, status, wait, attempts, spawn_failed>>

\* loop_manager.step()?
Step ==
    /\ pc = "step"
    /\ LET r == step(loop_manager, clock) IN
       /\ r.res.tag = "Ok" => loop_manager.iteration < MaxIter
       /\ loop_manager' = r.self
       /\ IF r.res.tag = "Ok"
          THEN pc' = "status" /\ UNCHANGED outcome
          ELSE Finish(r.res.err)
    /\ step_calls' = step_calls + 1
    /\ UNCHANGED <<debug_enabled, clock, status, wait, attempts, spawn_failed>>

\* debug!("Loop manager status: {:?}", loop_manager.status()?): the argument
\* is evaluated only when the debug level is enabled
Status ==
    /\ pc = "status"
    /\ IF debug_enabled /\ status_text(loop_manager, clock).tag = "Err"
       THEN Finish(status_text(loop_manager, clock).err)
       ELSE pc' = "interval" /\ UNCHANGED outcome
    /\ UNCHANGED <<loop_manager, debug_enabled, clock, status, wait, attempts, spawn_failed, step_calls>>

\* loop_manager.interval()?, the argument of thread::sleep
Interval ==
    /\ pc = "interval"
    /\ LET r == interval(loop_manager, clock) IN
       IF r.tag = "Ok"
       THEN pc' = "sleep" /\ wait' = r.val /\ UNCHANGED outcome
       ELSE Finish(r.err) /\ UNCHANGED wait
    /\ UNCHANGED <<loop_manager, debug_enabled, clock, status, attempts, spawn_failed, step_calls>>

\* thread::sleep(d): the thread is blocked for d; further delay is a Tick
Sleep ==
    /\ pc = "sleep"
    /\ clock + wait <= MaxClock
    /\ clock' = clock + wait
    /\ pc' = "spawn"
    /\ UNCHANGED <<loop_manager, debug_enabled, status, wait, outcome, attempts, spawn_failed, step_calls>>

\* time passes while main runs or waits for the child
Tick ==
    /\ pc # "done"
    /\ clock < MaxClock
    /\ clock' = clock + 1
    /\ UNCHANGED <<loop_manager, debug_enabled, pc, status, wait, outcome, attempts, spawn_failed, step_calls>>

\* the system clock is set back, possibly before start_of_day
ClockBack ==
    /\ pc # "done"
    /\ \E c \in (0 - BackMax) .. (clock - 1) : clock' = c
    /\ UNCHANGED <<loop_manager, debug_enabled, pc, status, wait, outcome, attempts, spawn_failed, step_calls>>

Next ==
    \/ \E spawned \in BOOLEAN : Spawn(spawned)
    \/ \E st \in ExitStatuses : Exit(st)
    \/ Step
    \/ Status
    \/ Interval
    \/ Sleep
    \/ Tick
    \/ ClockBack

Spec == Init /\ [][Next]_vars

\* The command always runs and fails, and the clock only advances.
NextAlwaysFail ==
    \/ Spawn(TRUE)
    \/ \E st \in FailStatuses : Exit(st)
    \/ Step
    \/ Status
    \/ Interval
    \/ Sleep
    \/ Tick

\* main is one thread that runs until it returns, every attempt completes
\* and the clock keeps advancing
AlwaysFailSpec ==
    /\ Init
    /\ [][NextAlwaysFail]_vars
    /\ WF_vars(Spawn(TRUE))
    /\ WF_vars(\E st \in FailStatuses : Exit(st))
    /\ WF_vars(Step)
    /\ WF_vars(Status)
    /\ WF_vars(Interval)
    /\ WF_vars(Sleep)
    /\ WF_vars(Tick)

TypeOK ==
    /\ loop_manager.timeout \in TimeoutChoices
    /\ loop_manager.interval \in IntervalChoices
    /\ loop_manager.maximum_iterations \in MaximumIterationsChoices
    /\ loop_manager.iteration \in 0 .. MaxIter
    /\ clock \in (0 - BackMax) .. MaxClock
    /\ pc \in {"spawn", "wait", "step", "status", "interval", "sleep", "done"}
    /\ outcome \in {"Running", "Success", "SpawnError", "Timeout",
                    "MaximumIterations", "ClockError", "Panic"}

\* ---- shorthands of the properties ----------------------------------------
timeout == loop_manager.timeout
maximum_iterations == loop_manager.maximum_iterations
iteration == loop_manager.iteration
Max0(x) == IF x < 0 THEN 0 ELSE x

\* a call of step(), of interval(), the end of an attempt, the end of a sleep
StepCalled == pc = "step" /\ pc' # "step"
StepSucceeded == StepCalled /\ pc' = "status"
IntervalCalled == pc = "interval" /\ pc' # "interval"
AttemptEnded == pc = "wait" /\ pc' # "wait"
SleepEnded == pc = "sleep" /\ pc' # "sleep"

\* C1: when step() is called with the elapsed time at or past the configured
\* timeout, it fails with Timeout and leaves the manager alone, whatever the
\* iteration count and whether or not maximum_iterations is reached too.
C1_TimeoutTakesPrecedence ==
    [][(/\ StepCalled
        /\ IsSome(timeout)
        /\ clock >= loop_manager.start_of_day
        /\ clock - loop_manager.start_of_day >= Unwrap(timeout))
       => (pc' = "done" /\ outcome' = "Timeout" /\ loop_manager' = loop_manager)]_vars

\* C1 witness: Timeout was reported by a step() that also had reached
\* maximum_iterations, after an earlier successful step.
C1_Witness ==
    /\ outcome = "Timeout"
    /\ IsSome(timeout) /\ Unwrap(timeout) > 0 /\ clock >= Unwrap(timeout)
    /\ IsSome(maximum_iterations) /\ iteration + 1 >= Unwrap(maximum_iterations)
    /\ iteration >= 1

\* C2 as stated: when the loop stops with MaximumIterations, exactly M - 1
\* increments were allowed, for every M including 0.
C2_ExactlyMMinusOne ==
    outcome = "MaximumIterations" => iteration = Unwrap(maximum_iterations) - 1

\* C2 amended: with maximum_iterations = M and no timeout firing, a call of
\* step() fails with MaximumIterations exactly when iteration + 1 >= M and
\* otherwise increments; from 0 that allows max(M - 1, 0) increments before
\* the first MaximumIterations.
C2_MaximumIterations ==
    /\ [](outcome = "MaximumIterations"
          => IsSome(maximum_iterations) /\ iteration = Max0(Unwrap(maximum_iterations) - 1))
    /\ [][(/\ StepCalled
           /\ IsSome(maximum_iterations)
           /\ outcome' \notin {"Timeout", "ClockError"})
          => /\ (outcome' = "MaximumIterations") <=> (iteration + 1 >= Unwrap(maximum_iterations))
             /\ (outcome' = "Running") <=> (iteration + 1 < Unwrap(maximum_iterations))
             /\ outcome' = "Running" => loop_manager'.iteration = iteration + 1]_vars

\* C2 witness: M = 3 stopped the loop after two increments and three calls
C2_Witness ==
    /\ outcome = "MaximumIterations"
    /\ maximum_iterations = Some(3)
    /\ iteration = 2
    /\ step_calls = 3

\* C3: with an interval I configured, interval() called at iteration k and
\* elapsed time e returns max(0, I*k - e); it neither fails nor ends the loop.
\* Stated for I >= 0 with I*k a whole number of milliseconds, where the
\* truncation of milliseconds() plays no part.
C3_IntervalClamped ==
    [][(/\ IntervalCalled
        /\ IsSome(loop_manager.interval)
        /\ Unwrap(loop_manager.interval) >= 0
        /\ (Unwrap(loop_manager.interval) * iteration) % TicksPerMilli = 0
        /\ clock >= loop_manager.start_of_day)
       => /\ pc' = "sleep"
          /\ outcome' = "Running"
          /\ wait' = Max0(Unwrap(loop_manager.interval) * iteration
                          - (clock - loop_manager.start_of_day))]_vars

\* C4: with no interval configured, interval() returns a zero Duration in
\* every state, whatever the clock, and the sleep takes no time.
C4_NoIntervalZero ==
    [][loop_manager.interval = None
       => /\ IntervalCalled => (pc' = "sleep" /\ wait' = 0 /\ outcome' = "Running")
          /\ SleepEnded => (wait = 0 /\ clock' = clock /\ pc' = "spawn")]_vars

\* C4 witness: a second attempt is about to start, no interval, time has
\* passed and a timeout and maximum_iterations are set
C4_Witness ==
    /\ loop_manager.interval = None
    /\ pc = "spawn" /\ attempts >= 2 /\ clock > 0
    /\ IsSome(timeout) /\ IsSome(maximum_iterations)
    /\ wait = 0

\* C5: iteration starts at 0; a successful step() adds exactly 1 to it and
\* nothing else changes it, so it never decreases.
C5_IterationMonotone ==
    /\ iteration = 0
    /\ [][/\ StepSucceeded => loop_manager'.iteration = iteration + 1
          /\ ~StepSucceeded => loop_manager'.iteration = iteration
          /\ loop_manager'.iteration >= iteration]_vars

\* C5 witness: two successful steps, then a failed one
C5_Witness ==
    /\ iteration = 2
    /\ pc = "done"
    /\ step_calls = 3

\* C6: an attempt that exits with code 0 ends the loop with success at once,
\* with no step(), interval() or sleep for it; a first attempt that exits 0
\* leaves one attempt and iteration 0.
C6_SuccessStops ==
    /\ [](outcome = "Success"
          => /\ pc = "done"
             /\ step_calls = attempts - 1
             /\ attempts = 1 => iteration = 0)
    /\ [][(AttemptEnded /\ status' = Some(0))
          => /\ pc' = "done" /\ outcome' = "Success"
             /\ UNCHANGED <<loop_manager, step_calls, wait, clock, attempts>>]_vars
    /\ [][outcome = "Success" => UNCHANGED vars]_vars

\* C6 witness: the first attempt exited 0 with every bound configured and the
\* timeout already passed
C6_Witness ==
    /\ outcome = "Success"
    /\ attempts = 1 /\ iteration = 0 /\ step_calls = 0
    /\ IsSome(timeout) /\ Unwrap(timeout) > 0 /\ clock >= Unwrap(timeout)
    /\ IsSome(loop_manager.interval)
    /\ maximum_iterations = Some(0)

\* C7: the command always fails, maximum_iterations = M >= 1, no timeout:
\* the loop ends with MaximumIterations after exactly M attempts and M - 1
\* successful steps.  Stated for an interval that is unset or positive.
C7_ExactlyMAttempts ==
    (/\ pc = "done"
     /\ IsSome(maximum_iterations) /\ Unwrap(maximum_iterations) >= 1
     /\ timeout = None
     /\ loop_manager.interval \in {None, Some(2), Some(3)})
    => /\ outcome = "MaximumIterations"
       /\ attempts = Unwrap(maximum_iterations)
       /\ iteration = Unwrap(maximum_iterations) - 1
       /\ step_calls = Unwrap(maximum_iterations)

\* C8 as stated: the command always fails, a timeout is configured and no
\* interval: when the loop has ended, its outcome is Timeout.
C8_OutcomeTimeout ==
    (pc = "done" /\ IsSome(timeout) /\ loop_manager.interval = None)
    => outcome = "Timeout"

\* C8 amended: the command always fails, a timeout is configured, and neither
\* interval nor maximum_iterations is: the loop eventually ends, with Timeout,
\* after at least one attempt.
C8_EventuallyTimeout ==
    (IsSome(timeout) /\ loop_manager.interval = None /\ maximum_iterations = None)
    => <>(pc = "done" /\ outcome = "Timeout" /\ attempts >= 1 /\ step_calls = attempts)

\* C8 witness: Timeout after more than one attempt with a positive timeout
C8_Witness ==
    /\ outcome = "Timeout"
    /\ timeout = Some(3)
    /\ loop_manager.interval = None /\ maximum_iterations = None
    /\ attempts >= 2

\* C9: the command always fails, a positive interval is configured and no
\* timeout or maximum_iterations: the loop never ends, whatever time the
\* attempts take.
C9_NeverTerminates ==
    (/\ IsSome(loop_manager.interval) /\ Unwrap(loop_manager.interval) > 0
     /\ timeout = None /\ maximum_iterations = None)
    => (pc # "done" /\ outcome = "Running")

\* C10: a failed spawn ends the loop at once with the spawn error: no step()
\* for that attempt, iteration unchanged, nothing further happens.
C10_SpawnErrorStops ==
    /\ [](spawn_failed
          => /\ pc = "done" /\ outcome = "SpawnError"
             /\ step_calls = attempts - 1
             /\ iteration = attempts - 1)
    /\ [][(spawn_failed' /\ ~spawn_failed)
          => UNCHANGED <<loop_manager, step_calls, wait, clock>>]_vars
    /\ [][spawn_failed => UNCHANGED vars]_vars

\* C10 witness: the third spawn failed, after two failed attempts
C10_Witness ==
    /\ spawn_failed
    /\ outcome = "SpawnError"
    /\ attempts = 3 /\ iteration = 2 /\ step_calls = 2

StatusCalled == pc = "status" /\ pc' # "status"
ClockBeforeStart == clock < loop_manager.start_of_day

\* C11: an attempt that was spawned and ended with a non-zero code or by a
\* signal is a failed attempt: the loop goes to step(), which is called once
\* for it, and success is reported only for an exit code 0.
C11_FailedAttemptSteps ==
    /\ [](pc = "step" => (status \in FailStatuses /\ step_calls = attempts - 1))
    /\ [](pc \in {"status", "interval", "sleep", "spawn"} => step_calls = attempts)
    /\ [](outcome = "Success" => status = Some(0))
    /\ [][(AttemptEnded /\ status' # Some(0))
          => (pc' = "step" /\ outcome' = "Running" /\ step_calls' = step_calls)]_vars
    /\ [][StepCalled => step_calls' = step_calls + 1]_vars
    /\ [][step_calls' # step_calls => StepCalled]_vars

\* C11 witness: the second attempt was ended by a signal and step() has been
\* called for it
C11_Witness ==
    /\ status = None
    /\ attempts = 2 /\ step_calls = 2
    /\ pc = "status"

\* C12: once step() has failed with Timeout or MaximumIterations the loop
\* has stopped with that outcome and nothing happens any more: no attempt,
\* step(), interval() or sleep, and the manager is left as it is.
C12_StopIsFinal ==
    /\ [](outcome \in {"Timeout", "MaximumIterations"} => pc = "done")
    /\ [][(outcome = "Timeout" \/ outcome = "MaximumIterations") => UNCHANGED vars]_vars
    /\ [][(StepCalled /\ pc' # "status")
          => (pc' = "done" /\ outcome' \in {"Timeout", "MaximumIterations", "ClockError"})]_vars

\* C12 witness: the loop has stopped with Timeout on its second failed attempt
C12_Witness ==
    /\ outcome = "Timeout" /\ pc = "done"
    /\ attempts = 2 /\ step_calls = 2 /\ iteration = 1

\* C13: when the clock is before start_of_day as step(), status() or
\* interval() computes the elapsed time, the call fails with the clock error,
\* the loop ends with it, iteration is not incremented and nothing further
\* happens.
C13_ClockErrorStops ==
    /\ [][((StepCalled /\ IsSome(timeout))
           \/ (StatusCalled /\ debug_enabled)
           \/ (IntervalCalled /\ IsSome(loop_manager.interval)))
          /\ ClockBeforeStart
          => (pc' = "done" /\ outcome' = "ClockError" /\ loop_manager' = loop_manager
              /\ attempts' = attempts)]_vars
    /\ [][outcome = "ClockError" => UNCHANGED vars]_vars

\* C13 witness: a clock error ended the loop after a successful step
C13_Witness ==
    /\ outcome = "ClockError"
    /\ ClockBeforeStart
    /\ iteration >= 1

\* C14 as stated: with maximum_iterations = M set, iteration < M in every
\* state, for every M including 0.
C14_BelowMaximum ==
    IsSome(maximum_iterations) => iteration < Unwrap(maximum_iterations)

\* C14 amended: with maximum_iterations = M set, iteration < M in every state
\* when M >= 1, and iteration stays 0 when M = 0.
C14_BelowMaximumOrZero ==
    IsSome(maximum_iterations)
    => IF Unwrap(maximum_iterations) >= 1
       THEN iteration < Unwrap(maximum_iterations)
       ELSE iteration = 0

\* C14 witness: M = 2 and one increment made, the loop going on
C14_Witness ==
    /\ maximum_iterations = Some(2)
    /\ iteration = 1
    /\ pc = "sleep"

\* C15: a step() that fails leaves every field of the manager as it was;
\* iteration changes only in a step() where the timeout check and the
\* maximum-iterations check both pass.
C15_FailedStepChangesNothing ==
    /\ [][(StepCalled /\ pc' # "status") => loop_manager' = loop_manager]_vars
    /\ [][loop_manager'.iteration # iteration
          => /\ StepSucceeded
             /\ IsSome(timeout)
                => (~ClockBeforeStart
                    /\ clock - loop_manager.start_of_day < Unwrap(timeout))
             /\ IsSome(maximum_iterations)
                => iteration + 1 < Unwrap(maximum_iterations)]_vars

\* C15 witness: step() failed with MaximumIterations with a timeout set too,
\* after one increment
C15_Witness ==
    /\ outcome = "MaximumIterations"
    /\ maximum_iterations = Some(2) /\ iteration = 1
    /\ IsSome(timeout)

\* C16: status() and interval() change no field of the manager, and
\* start_of_day, timeout, interval and maximum_iterations are never changed
\* by any operation.
C16_NoSideEffects ==
    /\ [][(StatusCalled \/ IntervalCalled) => loop_manager' = loop_manager]_vars
    /\ [][/\ loop_manager'.start_of_day = loop_manager.start_of_day
          /\ loop_manager'.timeout = timeout
          /\ loop_manager'.interval = loop_manager.interval
          /\ loop_manager'.maximum_iterations = maximum_iterations]_vars

\* C16 witness: status() was evaluated and interval() returned a positive
\* wait, the second attempt is about to start
C16_Witness ==
    /\ pc = "spawn" /\ attempts = 1 /\ iteration = 1
    /\ debug_enabled
    /\ IsSome(loop_manager.interval)
    /\ wait > 0 /\ clock > 0

\* the scheduled instant of the attempt after k successful steps, as the
\* properties name it: I*k, and I*k cut to whole milliseconds
Scheduled == Unwrap(loop_manager.interval) * iteration
ScheduledMillis == (Max0(Scheduled) \div TicksPerMilli) * TicksPerMilli
Elapsed == clock - loop_manager.start_of_day

SpawnCalled == pc = "spawn" /\ pc' # "spawn"

\* C18: Timeout is reported only by step(): an attempt that exits 0 ends the
\* loop with success also when the timeout has passed, and after a
\* successful step() the sleep ends in the next attempt, which is started,
\* also when the timeout passes during the sleep.
C18_TimeoutOnlyInStep ==
    /\ [][(outcome' = "Timeout" /\ outcome # "Timeout") => StepCalled]_vars
    /\ [][(AttemptEnded /\ status' = Some(0)) => outcome' = "Success"]_vars
    /\ [][SleepEnded => (pc' = "spawn" /\ outcome' = "Running")]_vars
    /\ [][SpawnCalled => (attempts' = attempts + 1
                          /\ outcome' \in {"Running", "SpawnError"})]_vars

\* C18 witness: the timeout of 1.5 ms passed after the successful step, the
\* loop slept, ran the second attempt past the timeout and ended with success
C18_Witness ==
    /\ outcome = "Success"
    /\ attempts = 2 /\ iteration = 1
    /\ timeout = Some(3) /\ Elapsed >= 3
    /\ wait > 0

\* C19: the command is attempted before any bound is consulted: main starts
\* at the first attempt, step() is never called more often than the command,
\* and Timeout or MaximumIterations end the loop only after an attempt that
\* was spawned and failed.
C19_AttemptFirst ==
    /\ (pc = "spawn" /\ attempts = 0 /\ step_calls = 0 /\ outcome = "Running")
    /\ [](step_calls <= attempts)
    /\ []((outcome = "Timeout" \/ outcome = "MaximumIterations")
          => (attempts >= 1 /\ step_calls >= 1 /\ status \in FailStatuses /\ ~spawn_failed))
    /\ [][attempts = 0
          => (step_calls' = 0 /\ loop_manager' = loop_manager
              /\ outcome' \in {"Running", "SpawnError"})]_vars

\* C19 witness: timeout 0 and maximum_iterations 0, the loop ended with
\* Timeout after its one attempt
C19_Witness ==
    /\ outcome = "Timeout"
    /\ timeout = Some(0) /\ maximum_iterations = Some(0)
    /\ attempts = 1 /\ step_calls = 1

\* C20: when an attempt starts, iteration is the number of attempts made so
\* far, all of them failed; when the loop ends with Timeout or
\* MaximumIterations, the number of attempts is iteration + 1.
C20_IterationCountsAttempts ==
    /\ pc = "spawn" => (iteration = attempts /\ step_calls = attempts
                        /\ (attempts >= 1 => status \in FailStatuses))
    /\ (outcome = "Timeout" \/ outcome = "MaximumIterations") => attempts = iteration + 1

\* C20 witness: the loop ended with Timeout on its third attempt, which had
\* started with iteration 2
C20_Witness ==
    /\ outcome = "Timeout"
    /\ attempts = 3 /\ iteration = 2
    /\ status \in FailStatuses

====
